---- MODULE Spec2Model ----
(***************************************************************************)
(* Binary VDF codec (src/src/bvdf.rs), the marker-based shortcut extractor *)
(* and the shortcut ids (src/src/shortcut.rs) of steamlocate.              *)
(*                                                                         *)
(* Byte buffers are sequences of integers in 0..255.  A Rust slice cursor  *)
(* `&mut &[u8]` is modelled by the remaining suffix of the buffer.         *)
(***************************************************************************)
EXTENDS Integers, Sequences, FiniteSets, TLC

VARIABLES contents, origin, tree, pc, bytes, decoded, encoded,
          redecoded, reencoded,
          layout, parsed, shortcuts,
          args, shortcut, long_id,
          marker, cursor, hit,
          stack, phase, fields

vars == <<contents, origin, tree, pc, bytes, decoded, encoded,
          redecoded, reencoded,
          layout, parsed, shortcuts,
          args, shortcut, long_id,
          marker, cursor, hit,
          stack, phase, fields>>

\* the variables of the extractor, of Shortcut::new and steam_id, of one
\* marker search, and of the codec and the extractor taken step by step
extractorVars == <<layout, parsed, shortcuts>>
identityVars == <<args, shortcut, long_id>>
searchVars == <<marker, cursor, hit>>
stepVars == <<stack, phase, fields>>

----------------------------------------------------------------------------
(* Bounds of the checked instance *)

\* longest input buffer drawn for decode
MaxLen == 7
\* largest number of entries (nested ones included) of a tree drawn for encode
MaxEntries == 3
\* largest number of sibling entries of a buffer put together from entries
MaxSiblings == 3
\* longest buffer drawn for one marker search
MaxHay == 5
\* longest buffer decoded step by step, and largest number of records of a
\* file parsed step by step
MaxStepLen == 5
MaxStepRecords == 1
\* largest number of shortcut records of a shortcuts.vdf drawn for the extractor
MaxRecords == 2

\* bytes the input buffers are made of: the four tags, a letter (which is
\* also a byte that is no tag)
Alphabet == {0, 1, 2, 8, 65}

----------------------------------------------------------------------------
(* Slices *)

Take(s, n) == SubSeq(s, 1, n)
Drop(s, n) == SubSeq(s, n + 1, Len(s))
Range(s) == {s[i] : i \in 1..Len(s)}

----------------------------------------------------------------------------
(* src/src/bvdf.rs: the value model *)

TYPE_MAP == 0
TYPE_STR == 1
TYPE_INT == 2
TYPE_END == 8

\* type Int = u32, kept as its two 16-bit halves (value = hi * 65536 + lo):
\* the integers of TLC end at 2^31 - 1
U32(hi, lo) == [hi |-> hi, lo |-> lo]

\* enum Val; the fields a variant does not use hold a fixed filler so that
\* any two values can be compared
ValMap(m) == [type |-> "Map", map |-> m, str |-> <<>>, int |-> U32(0, 0)]
ValStr(s) == [type |-> "Str", map |-> <<>>, str |-> s, int |-> U32(0, 0)]
ValInt(i) == [type |-> "Int", map |-> <<>>, str |-> <<>>, int |-> i]

\* IndexMap<CString, Val> as the sequence of its entries in iteration order
Keys(map) == {map[i].key : i \in 1..Len(map)}

\* mutant of insert: a key that is present is taken out and put at the end
insert_at_end(map, key, value) ==
    SelectSeq(map, LAMBDA e : e.key # key) \o <<[key |-> key, val |-> value]>>

\* mutant of insert: the entry is put in front of the others
insert_front(map, key, value) ==
    <<[key |-> key, val |-> value]>> \o
    SelectSeq(map, LAMBDA e : e.key # key)

\* IndexMap::insert: a new key is appended, an existing key keeps its place
\* and takes the new value
insert(map, key, value) ==
    IF key \in Keys(map)
    THEN [i \in 1..Len(map) |->
            IF map[i].key = key THEN [key |-> key, val |-> value] ELSE map[i]]
    ELSE Append(map, [key |-> key, val |-> value])

\* Result<_, DecodeError> of the decode functions together with the cursor
\* they leave behind; "Panic" is a Rust panic (an index out of range or a
\* failed expect)
Result(res, rest, str, int, map) ==
    [res |-> res, rest |-> rest, str |-> str, int |-> int, map |-> map]

Fail(res, rest) == Result(res, rest, <<>>, U32(0, 0), <<>>)

----------------------------------------------------------------------------
(* src/src/bvdf.rs: decoding *)

\* the loop of decode_str: the index of the first NUL, or -1 when
\* bytes.get(len) is None first
RECURSIVE scan_nul(_, _)
scan_nul(bs, len) ==
    IF len >= Len(bs) THEN -1
    ELSE IF bs[len + 1] = 0 THEN len
    ELSE scan_nul(bs, len + 1)

\* mutant of decode_str: the loop also ends at the end of the slice, and
\* the slice after the missing NUL is taken (the decode_str of
\* crates/bvdf/src/lib.rs)
decode_str_unchecked(bs) ==
    LET len == scan_nul(bs, 0) IN
    IF len = -1 THEN Fail("Panic", bs)
    ELSE Result("Ok", Drop(bs, len + 1), Take(bs, len), U32(0, 0), <<>>)

\* mutant of decode_str: the loop starts at the second byte
decode_str_from_second(bs) ==
    LET len == scan_nul(bs, 1) IN
    IF len = -1 THEN Fail("UnexpectedEndOfInput", bs)
    ELSE IF 0 \in Range(Take(bs, len)) THEN Fail("Panic", bs)
    ELSE Result("Ok", Drop(bs, len + 1), Take(bs, len), U32(0, 0), <<>>)

decode_str(bs) ==
    LET len == scan_nul(bs, 0) IN
    IF len = -1 THEN Fail("UnexpectedEndOfInput", bs)
    ELSE IF 0 \in Range(Take(bs, len)) THEN Fail("Panic", bs)
    ELSE Result("Ok", Drop(bs, len + 1), Take(bs, len), U32(0, 0), <<>>)

\* Int::from_le_bytes
from_le_bytes(b) == U32(b[3] + 256 * b[4], b[1] + 256 * b[2])

\* bytes[..4] panics when the slice is shorter than 4; the try_into of a
\* 4-byte slice to [u8; 4] cannot fail
decode_int(bs) ==
    IF Len(bs) < 4 THEN Fail("Panic", bs)
    ELSE Result("Ok", Drop(bs, 4), <<>>, from_le_bytes(Take(bs, 4)), <<>>)

RECURSIVE decode_map_loop(_, _)
RECURSIVE decode_map(_)

\* decode_map_loop with the result at the end of the slice and the error
\* for an unknown tag as parameters, for the two mutants below
decode_map_loop_with(bs, map, at_end, unknown) ==
    IF Len(bs) = 0
    THEN IF at_end = "Ok" THEN Result("Ok", bs, <<>>, U32(0, 0), map)
         ELSE Fail(at_end, bs)
    ELSE
      LET next == bs[1]
          b1 == Tail(bs)
      IN
      IF next = TYPE_END THEN Result("Ok", b1, <<>>, U32(0, 0), map)
      ELSE IF next \notin {TYPE_MAP, TYPE_STR, TYPE_INT}
      THEN Fail(unknown, b1)
      ELSE
        LET key == decode_str(b1) IN
        IF key.res # "Ok" THEN Fail(key.res, key.rest)
        ELSE
          LET value == CASE next = TYPE_MAP -> decode_map(key.rest)
                         [] next = TYPE_STR -> decode_str(key.rest)
                         [] next = TYPE_INT -> decode_int(key.rest)
          IN
          IF value.res # "Ok" THEN Fail(value.res, value.rest)
          ELSE decode_map_loop(value.rest,
                 insert(map, key.str,
                   CASE next = TYPE_MAP -> ValMap(value.map)
                     [] next = TYPE_STR -> ValStr(value.str)
                     [] next = TYPE_INT -> ValInt(value.int)))

\* mutant of decode_map_loop: a map that ends without 0x08 is an error at
\* every level, the top level included
decode_map_loop_strict(bs, map) ==
    decode_map_loop_with(bs, map, "UnexpectedEndOfInput", "InvalidMapItemPrefix")

\* mutant of decode_map_loop: an unknown tag is reported with the other
\* error
decode_map_loop_wrong_error(bs, map) ==
    decode_map_loop_with(bs, map, "Ok", "UnexpectedEndOfInput")

\* one evaluation of the `while let` of decode_map and all that follow it
decode_map_loop(bs, map) ==
    IF Len(bs) = 0 THEN Result("Ok", bs, <<>>, U32(0, 0), map)
    ELSE
      LET next == bs[1]
          b1 == Tail(bs)
      IN
      IF next = TYPE_END THEN Result("Ok", b1, <<>>, U32(0, 0), map)
      ELSE IF next \notin {TYPE_MAP, TYPE_STR, TYPE_INT}
      THEN Fail("InvalidMapItemPrefix", b1)
      ELSE
        LET key == decode_str(b1) IN
        IF key.res # "Ok" THEN Fail(key.res, key.rest)
        ELSE
          LET value == CASE next = TYPE_MAP -> decode_map(key.rest)
                         [] next = TYPE_STR -> decode_str(key.rest)
                         [] next = TYPE_INT -> decode_int(key.rest)
          IN
          IF value.res # "Ok" THEN Fail(value.res, value.rest)
          ELSE decode_map_loop(value.rest,
                 insert(map, key.str,
                   CASE next = TYPE_MAP -> ValMap(value.map)
                     [] next = TYPE_STR -> ValStr(value.str)
                     [] next = TYPE_INT -> ValInt(value.int)))

decode_map(bs) == decode_map_loop(bs, <<>>)

\* pub fn decode: the cursor is a local of decode, the caller sees res and map
\* mutant of decode: bytes after the root's 0x08 are an error
decode_all(bs) ==
    LET r == decode_map(bs) IN
    IF r.res = "Ok" /\ r.rest # <<>> THEN Fail("InvalidMapItemPrefix", r.rest)
    ELSE r

decode(bs) == decode_map(bs)

----------------------------------------------------------------------------
(* src/src/bvdf.rs: encoding *)

\* u32::to_le_bytes
\* mutant of to_le_bytes: the most significant byte comes first
to_be_bytes(i) == <<i.hi \div 256, i.hi % 256, i.lo \div 256, i.lo % 256>>

to_le_bytes(i) == <<i.lo % 256, i.lo \div 256, i.hi % 256, i.hi \div 256>>

\* CString::as_bytes_with_nul
as_bytes_with_nul(s) == s \o <<0>>

RECURSIVE encode(_)
RECURSIVE encode_entries(_, _)

\* the `for (key, value) in map` loop of encode from entry i on
encode_entries(map, i) ==
    IF i > Len(map) THEN <<>>
    ELSE
      LET key == map[i].key
          value == map[i].val
          tag == CASE value.type = "Map" -> TYPE_MAP
                   [] value.type = "Str" -> TYPE_STR
                   [] value.type = "Int" -> TYPE_INT
          payload == CASE value.type = "Map" -> encode(value.map)
                       [] value.type = "Str" -> as_bytes_with_nul(value.str)
                       [] value.type = "Int" -> to_le_bytes(value.int)
      IN <<tag>> \o as_bytes_with_nul(key) \o payload \o encode_entries(map, i + 1)

\* mutant of encode: the end-of-map byte is not written
encode_no_end(map) == encode_entries(map, 1)

encode(map) == encode_entries(map, 1) \o <<TYPE_END>>

----------------------------------------------------------------------------
(* src/src/shortcut.rs: the extractor.  The Peekable<Iter<u8>> is the      *)
(* suffix of the buffer that has not been read; a String is the sequence   *)
(* of its Unicode scalar values.                                           *)

\* the needles of parse_shortcuts: b"\x02appid\x00", b"\x01AppName\x00",
\* b"\x01Exe\x00", b"\x01StartDir\x00"
NEEDLE_APPID == <<2, 97, 112, 112, 105, 100, 0>>
NEEDLE_APPNAME == <<1, 65, 112, 112, 78, 97, 109, 101, 0>>
NEEDLE_EXE == <<1, 69, 120, 101, 0>>
NEEDLE_STARTDIR == <<1, 83, 116, 97, 114, 116, 68, 105, 114, 0>>

\* u8::to_ascii_lowercase
to_ascii_lowercase(b) == IF b >= 65 /\ b <= 90 THEN b + 32 ELSE b

\* u8::eq_ignore_ascii_case
eq_ignore_ascii_case(b1, b2) == to_ascii_lowercase(b1) = to_ascii_lowercase(b2)

\* mutant of maybe_u8_eq_ignore_ascii_case: the bytes are compared as they are
maybe_u8_eq(maybe_b1, maybe_b2) ==
    /\ maybe_b1 # <<>>
    /\ maybe_b2 # <<>>
    /\ maybe_b1[1] = maybe_b2[1]

\* an Option<&u8> is <<>> (None) or <<b>> (Some(b))
maybe_u8_eq_ignore_ascii_case(maybe_b1, maybe_b2) ==
    /\ maybe_b1 # <<>>
    /\ maybe_b2 # <<>>
    /\ eq_ignore_ascii_case(maybe_b1[1], maybe_b2[1])

\* Iterator::next / Peekable::peek / slice::get as an Option
Peek(it) == IF it = <<>> THEN <<>> ELSE <<it[1]>>
Get(s, i) == IF i >= 1 /\ i <= Len(s) THEN <<s[i]>> ELSE <<>>

\* the innermost loop of after_many_case_insensitive: needle_it stands before
\* needle[i]; a byte that does not match is peeked at, not consumed
RECURSIVE match_rest(_, _, _)

\* mutant of match_rest: the byte that does not match is consumed (next
\* instead of peek)
match_rest_consume(it, needle, i) ==
    IF i > Len(needle) THEN [found |-> TRUE, it |-> it]
    ELSE IF maybe_u8_eq_ignore_ascii_case(Get(needle, i), Peek(it))
    THEN match_rest(Tail(it), needle, i + 1)
    ELSE [found |-> FALSE, it |-> Drop(it, 1)]

match_rest(it, needle, i) ==
    IF i > Len(needle) THEN [found |-> TRUE, it |-> it]
    ELSE IF maybe_u8_eq_ignore_ascii_case(Get(needle, i), Peek(it))
    THEN match_rest(Tail(it), needle, i + 1)
    ELSE [found |-> FALSE, it |-> it]

\* mutant of scan_iteration: the first byte is peeked at and consumed only
\* when it matches (peek instead of next)
scan_iteration_peek(it, needle) ==
    IF it = <<>> THEN [returned |-> TRUE, found |-> FALSE, it |-> it]
    ELSE IF maybe_u8_eq_ignore_ascii_case(Get(needle, 1), <<it[1]>>)
    THEN LET m == match_rest(Tail(it), needle, 2) IN
         [returned |-> m.found, found |-> m.found, it |-> m.it]
    ELSE [returned |-> FALSE, found |-> FALSE, it |-> it]

\* one iteration of the scan of after_many_case_insensitive (the body of
\* its second loop): returned tells whether the function has returned
scan_iteration(it, needle) ==
    IF it = <<>> THEN [returned |-> TRUE, found |-> FALSE, it |-> it]
    ELSE IF maybe_u8_eq_ignore_ascii_case(Get(needle, 1), <<it[1]>>)
    THEN LET m == match_rest(Tail(it), needle, 2) IN
         [returned |-> m.found, found |-> m.found, it |-> m.it]
    ELSE [returned |-> FALSE, found |-> FALSE, it |-> Tail(it)]

RECURSIVE after_many_case_insensitive(_, _)
after_many_case_insensitive(it, needle) ==
    IF it = <<>> THEN [found |-> FALSE, it |-> it]
    ELSE IF maybe_u8_eq_ignore_ascii_case(Get(needle, 1), <<it[1]>>)
    THEN LET m == match_rest(Tail(it), needle, 2) IN
         IF m.found THEN m ELSE after_many_case_insensitive(m.it, needle)
    ELSE after_many_case_insensitive(Tail(it), needle)

\* String::from_utf8_lossy for the bytes of the model: an ASCII byte is its
\* own character, a byte from 0xF5 on occurs in no UTF-8 sequence and
\* becomes U+FFFD
from_utf8_lossy(buff) ==
    [i \in 1..Len(buff) |-> IF buff[i] < 128 THEN buff[i] ELSE 65533]

\* parse_value_str from the state (it, buff) of its loop on
RECURSIVE parse_value_str(_, _)
parse_value_str(it, buff) ==
    IF it = <<>> THEN [some |-> FALSE, it |-> it, str |-> <<>>]
    ELSE IF it[1] = 0
    THEN [some |-> TRUE, it |-> Tail(it), str |-> from_utf8_lossy(buff)]
    ELSE parse_value_str(Tail(it), Append(buff, it[1]))

\* mutant of parse_value_u32: the four bytes are read most significant first
parse_value_u32_be(it) ==
    IF Len(it) < 4 THEN [some |-> FALSE, it |-> <<>>, int |-> U32(0, 0)]
    ELSE [some |-> TRUE, it |-> Drop(it, 4),
          int |-> U32(it[2] + 256 * it[1], it[4] + 256 * it[3])]

parse_value_u32(it) ==
    IF Len(it) < 4 THEN [some |-> FALSE, it |-> <<>>, int |-> U32(0, 0)]
    ELSE [some |-> TRUE, it |-> Drop(it, 4), int |-> from_le_bytes(Take(it, 4))]

\* struct Shortcut
Shortcut(appid, app_name, executable, start_dir) ==
    [appid |-> appid, app_name |-> app_name,
     executable |-> executable, start_dir |-> start_dir]

\* Option<Vec<Shortcut>>
None == [some |-> FALSE, vec |-> <<>>]
Some(v) == [some |-> TRUE, vec |-> v]

\* the loop of parse_shortcuts from the state (it, shortcuts) on; vec is
\* its local `shortcuts`
RECURSIVE parse_shortcuts_loop(_, _)
parse_shortcuts_loop(it, vec) ==
    LET a == after_many_case_insensitive(it, NEEDLE_APPID) IN
    IF ~a.found THEN Some(vec)
    ELSE
    LET appid == parse_value_u32(a.it) IN
    IF ~appid.some THEN None
    ELSE
    LET n == after_many_case_insensitive(appid.it, NEEDLE_APPNAME) IN
    IF ~n.found THEN None
    ELSE
    LET app_name == parse_value_str(n.it, <<>>) IN
    IF ~app_name.some THEN None
    ELSE
    LET e == after_many_case_insensitive(app_name.it, NEEDLE_EXE) IN
    IF ~e.found THEN None
    ELSE
    LET executable == parse_value_str(e.it, <<>>) IN
    IF ~executable.some THEN None
    ELSE
    LET d == after_many_case_insensitive(executable.it, NEEDLE_STARTDIR) IN
    IF ~d.found THEN None
    ELSE
    LET start_dir == parse_value_str(d.it, <<>>) IN
    IF ~start_dir.some THEN None
    ELSE parse_shortcuts_loop(start_dir.it,
           Append(vec,
             Shortcut(appid.int, app_name.str, executable.str, start_dir.str)))

parse_shortcuts(bs) == parse_shortcuts_loop(bs, <<>>)

----------------------------------------------------------------------------
(* src/src/shortcut.rs: Shortcut::new and steam_id.  A u64 is kept as its  *)
(* two u32 halves.                                                         *)

RECURSIVE BitXor(_, _)
\* a ^ b
BitXor(a, b) ==
    IF a = 0 THEN b
    ELSE IF b = 0 THEN a
    ELSE ((a + b) % 2) + 2 * BitXor(a \div 2, b \div 2)

RECURSIVE BitOr(_, _)
\* a | b
BitOr(a, b) ==
    IF a = 0 THEN b
    ELSE IF b = 0 THEN a
    ELSE (IF a % 2 = 1 \/ b % 2 = 1 THEN 1 ELSE 0)
         + 2 * BitOr(a \div 2, b \div 2)

xor32(x, y) == U32(BitXor(x.hi, y.hi), BitXor(x.lo, y.lo))
or32(x, y) == U32(BitOr(x.hi, y.hi), BitOr(x.lo, y.lo))
\* x >> 1
shr32(x) == U32(x.hi \div 2, (x.lo \div 2) + (x.hi % 2) * 32768)

\* crc::CRC_32_ISO_HDLC: the polynomial 0x04c11db7 in the reflected bit
\* order 0xedb88320, init and xorout 0xffffffff
CRC_POLY_REFLECTED == U32(60856, 33568)
CRC_INIT == U32(65535, 65535)
CRC_XOROUT == U32(65535, 65535)

RECURSIVE crc_shift(_, _)
\* n bits of the register shifted out, the least significant one first;
\* the register stays within 32 bits
crc_shift(crc, n) ==
    IF n = 0 THEN crc
    ELSE LET next == IF crc.lo % 2 = 1
                     THEN xor32(shr32(crc), CRC_POLY_REFLECTED)
                     ELSE shr32(crc)
         IN CASE next.hi < 65536 /\ next.lo < 65536 -> crc_shift(next, n - 1)

RECURSIVE digest_update(_, _)
\* digest.update(bs)
digest_update(crc, bs) ==
    IF bs = <<>> THEN crc
    ELSE LET next == crc_shift(xor32(crc, U32(0, bs[1])), 8)
         IN CASE next.hi < 65536 /\ next.lo < 65536 ->
                   digest_update(next, Tail(bs))

\* digest.finalize()
digest_finalize(crc) == xor32(crc, CRC_XOROUT)

\* the UTF-8 bytes of one scalar value below 0x10000
utf8(c) ==
    IF c < 128 THEN <<c>>
    ELSE IF c < 2048 THEN <<192 + (c \div 64), 128 + (c % 64)>>
    ELSE <<224 + (c \div 4096), 128 + ((c \div 64) % 64), 128 + (c % 64)>>

RECURSIVE as_bytes(_)
\* String::as_bytes
as_bytes(str) ==
    IF str = <<>> THEN <<>> ELSE utf8(str[1]) \o as_bytes(Tail(str))

\* Path::parent of a path written without "." components and without
\* doubled or trailing separators; <<>> for None, <<dir>> for Some(dir)
parent(path) ==
    LET S == {i \in 1..Len(path) : path[i] = 47} IN
    IF path = <<>> \/ path = <<47>> THEN <<>>
    ELSE IF S = {} THEN << <<>> >>
    ELSE LET last == CHOOSE i \in S : \A j \in S : j <= i IN
         IF last = 1 THEN << <<47>> >> ELSE <<Take(path, last - 1)>>

\* mutant of new: the name is hashed before the executable
new_name_first(app_name, executable) ==
    Shortcut(
      or32(digest_finalize(
             digest_update(digest_update(CRC_INIT, as_bytes(app_name)),
                           as_bytes(executable))),
           U32(32768, 0)),
      app_name, executable,
      IF parent(executable) = <<>> THEN executable ELSE parent(executable)[1])

\* Shortcut::new
new(app_name, executable) ==
    LET digest0 == CRC_INIT
        digest1 == digest_update(digest0, as_bytes(executable))
        digest2 == digest_update(digest1, as_bytes(app_name))
        appid == or32(digest_finalize(digest2), U32(32768, 0))
        start_dir ==
          IF parent(executable) = <<>> THEN executable
          ELSE parent(executable)[1]
    IN Shortcut(appid, app_name, executable, start_dir)

\* u64 from its upper and lower 32 bits
U64(hi, lo) == [hi |-> hi, lo |-> lo]
\* x as u64
as_u64(x) == U64(U32(0, 0), x)
\* x << 32: the upper 32 bits leave the word
shl32_u64(x) == U64(x.lo, U32(0, 0))
or64(x, y) == U64(or32(x.hi, y.hi), or32(x.lo, y.lo))

\* mutant of steam_id: the id is not widened before the shift, which a
\* 32-bit wrapping shift by 32 leaves in place
steam_id_narrow(self) == U64(U32(0, 0), or32(self.appid, U32(512, 0)))

\* Shortcut::steam_id: ((appid as u64) << 32) | 0x02000000
steam_id(self) ==
    or64(shl32_u64(as_u64(self.appid)), as_u64(U32(512, 0)))

NoLongId == U64(U32(0, 0), U32(0, 0))

----------------------------------------------------------------------------
(* Inputs *)

\* every buffer of at most MaxLen bytes of the alphabet
Buffers == UNION {[1..n -> Alphabet] : n \in 0..MaxLen}

\* keys, texts and integers the trees handed to encode are made of; the
\* integers are 0, 0x00080102 and 0xFFFFFFFF
TreeKeys == {<<>>, <<65>>}
TreeStrs == {<<>>, <<65>>, <<8, 1>>}
TreeInts == {U32(0, 0), U32(8, 258), U32(65535, 65535)}

Leaves == {ValStr(s) : s \in TreeStrs} \cup {ValInt(i) : i \in TreeInts}

\* MapsOfSize[n]: the maps with unique keys that have n entries in all,
\* those of nested maps included
MapsOfSize[n \in Nat] ==
    IF n = 0 THEN {<<>>}
    ELSE UNION {UNION {
           {Append(m, [key |-> k, val |-> v]) :
              k \in TreeKeys \ Keys(m),
              v \in (IF j = 1 THEN Leaves ELSE {}) \cup
                    {ValMap(c) : c \in MapsOfSize[j - 1]}}
           : m \in MapsOfSize[n - j]} : j \in 1..n}

Trees == UNION {MapsOfSize[n] : n \in 0..MaxEntries}

\* A shortcuts.vdf as its writer lays it out: "\x00shortcuts\x00", then per
\* record "\x00<index>\x00", the appid, AppName, Exe and StartDir entries and
\* "\x08", then "\x08\x08".  Unknown fields (gaps[1..4]) stand before the four
\* entries of a record; the key names are written as in the needles or with
\* the case of every letter swapped; the file is cut `cut` bytes before its
\* end.
\* complete entries buffers are put together from: texts and an integer
\* under the keys "" and "A", an empty map, a map of one text and a map
\* that holds the key "" twice
EntryChoices ==
    {<<1, 0, 0>>, <<1, 0, 65, 0>>, <<1, 65, 0, 0>>, <<2, 0, 2, 1, 0, 8>>,
     <<0, 65, 0, 8>>, <<0, 0, 1, 65, 0, 0, 8>>,
     <<0, 0, 1, 0, 0, 1, 0, 65, 0, 8>>}

RECURSIVE Concat(_)
Concat(ss) == IF ss = <<>> THEN <<>> ELSE Head(ss) \o Concat(Tail(ss))

\* what is put around the entries: nothing, the root's 0x08 after them, or
\* a map "A" and the root's 0x08
Wrappings == {"open", "closed", "nested"}
Wrap(body, wrapping) ==
    CASE wrapping = "open" -> body
      [] wrapping = "closed" -> body \o <<8>>
      [] wrapping = "nested" -> <<0, 65, 0>> \o body \o <<8, 8>>

EntryBuffers ==
    {Wrap(Concat(es), w) :
       es \in UNION {[1..n -> EntryChoices] : n \in 0..MaxSiblings},
       w \in Wrappings}

KeyCases == {"as_is", "swapped"}

Recase(key, case) ==
    [i \in 1..Len(key) |->
       CASE case = "swapped" /\ key[i] >= 97 /\ key[i] <= 122 -> key[i] - 32
         [] case = "swapped" /\ key[i] >= 65 /\ key[i] <= 90 -> key[i] + 32
         [] OTHER -> key[i]]

\* the values of a record: id 0xA6132805 with "Ab", "\"a\"", "/" and id
\* 0x81000102 with "\x01Exe", "", "\xFF/"
RecordValues ==
    {[id |-> U32(42515, 10245), name |-> <<65, 98>>,
      exe |-> <<34, 97, 34>>, dir |-> <<47>>],
     [id |-> U32(33024, 258), name |-> <<1, 69, 120, 101>>,
      exe |-> <<>>, dir |-> <<255, 47>>]}

\* unknown fields before appid, AppName, Exe and StartDir: none; a text "k",
\* an integer "n" ending in 0x01, a map "t" and a text "i"; a text whose
\* value is "\x02appid" before appid and a text whose key is "x\x01EXE"
\* before Exe
GapsNone == <<<<>>, <<>>, <<>>, <<>>>>
GapsFields ==
    <<<<1, 107, 0, 118, 0>>, <<2, 110, 0, 7, 0, 0, 1>>,
      <<0, 116, 0, 8>>, <<1, 105, 0, 0>>>>
GapsLikeMarkers ==
    <<<<1, 107, 0, 2, 97, 112, 112, 105, 100, 0>>, <<>>,
      <<1, 120, 1, 69, 88, 69, 0, 118, 0>>, <<>>>>
Gaps == {GapsNone, GapsFields, GapsLikeMarkers}

Records == {[id |-> v.id, name |-> v.name, exe |-> v.exe, dir |-> v.dir,
             gaps |-> g] : v \in RecordValues, g \in Gaps}

FileHeader == <<0, 115, 104, 111, 114, 116, 99, 117, 116, 115, 0>>
FileTrailer == <<8, 8>>
RecordOpen(i) == <<0, 47 + i, 0>>

\* record i without its closing 0x08
RecordBody(rec, i, case) ==
    RecordOpen(i)
    \o rec.gaps[1] \o Recase(NEEDLE_APPID, case) \o to_le_bytes(rec.id)
    \o rec.gaps[2] \o Recase(NEEDLE_APPNAME, case) \o rec.name \o <<0>>
    \o rec.gaps[3] \o Recase(NEEDLE_EXE, case) \o rec.exe \o <<0>>
    \o rec.gaps[4] \o Recase(NEEDLE_STARTDIR, case) \o rec.dir \o <<0>>

RECURSIVE RecordsBytes(_, _, _)
\* the records 1..n of recs
RecordsBytes(recs, n, case) ==
    IF n = 0 THEN <<>>
    ELSE RecordsBytes(recs, n - 1, case) \o RecordBody(recs[n], n, case) \o <<8>>

FileBytes(recs, case) ==
    FileHeader \o RecordsBytes(recs, Len(recs), case) \o FileTrailer

\* the bytes that may be cut: the last record and the trailer
MaxCut(recs, case) ==
    IF recs = <<>> THEN 0
    ELSE Len(RecordBody(recs[Len(recs)], Len(recs), case)) + 1 + Len(FileTrailer)

Render(lay) ==
    LET full == FileBytes(lay.recs, lay.case) IN Take(full, Len(full) - lay.cut)

NoLayout == [case |-> "as_is", recs |-> <<>>, cut |-> 0]

----------------------------------------------------------------------------
(* The codec as a state machine: a caller hands a buffer to decode and     *)
(* re-encodes the tree it gets, or hands a tree to encode and decodes the  *)
(* bytes it gets.                                                          *)

NoResult == [res |-> "None", map |-> <<>>]
NoArgs == [app_name |-> <<>>, executable |-> <<>>]
NoShortcut == Shortcut(U32(0, 0), <<>>, <<>>, <<>>)
NoFields == [appid |-> U32(0, 0), app_name |-> <<>>, executable |-> <<>>]

codecVars == <<tree, bytes, decoded, encoded, redecoded, reencoded>>

\* the values of the variables a specification does not use
IdleCodec ==
    /\ tree = <<>> /\ bytes = <<>>
    /\ decoded = NoResult /\ encoded = <<>>
    /\ redecoded = NoResult /\ reencoded = <<>>
IdleExtractor == layout = NoLayout /\ parsed = None /\ shortcuts = <<>>
IdleIdentity == args = NoArgs /\ shortcut = NoShortcut /\ long_id = NoLongId
IdleSearch == marker = <<>> /\ cursor = <<>> /\ hit = FALSE
IdleSteps == stack = <<>> /\ phase = 0 /\ fields = NoFields

Init ==
    /\ \/ origin = "bytes" /\ contents \in Buffers /\ tree = <<>> /\ pc = "input"
       \/ origin = "tree" /\ tree \in Trees /\ contents = <<>> /\ pc = "tree"
       \/ /\ origin = "entries" /\ contents \in EntryBuffers
          /\ tree = <<>> /\ pc = "input"
    /\ bytes = <<>>
    /\ decoded = NoResult
    /\ encoded = <<>>
    /\ redecoded = NoResult
    /\ reencoded = <<>>
    /\ layout = NoLayout
    /\ parsed = None
    /\ shortcuts = <<>>
    /\ IdleIdentity /\ IdleSearch /\ IdleSteps

\* encode(&tree)
EncodeTree ==
    /\ pc = "tree"
    /\ contents' = encode(tree)
    /\ pc' = "input"
    /\ UNCHANGED <<origin, tree, bytes, decoded, encoded, redecoded, reencoded>>
    /\ UNCHANGED <<extractorVars, identityVars, searchVars, stepVars>>

\* decode(&contents)
Decode ==
    /\ pc = "input"
    /\ LET r == decode(contents) IN
         /\ decoded' = [res |-> r.res, map |-> r.map]
         /\ bytes' = r.rest
    /\ pc' = "decoded"
    /\ UNCHANGED <<contents, origin, tree, encoded, redecoded, reencoded>>
    /\ UNCHANGED <<extractorVars, identityVars, searchVars, stepVars>>

\* encode(&decoded) after decode(..).unwrap()
EncodeDecoded ==
    /\ pc = "decoded"
    /\ decoded.res = "Ok"
    /\ encoded' = encode(decoded.map)
    /\ pc' = "encoded"
    /\ UNCHANGED <<contents, origin, tree, bytes, decoded, redecoded, reencoded>>
    /\ UNCHANGED <<extractorVars, identityVars, searchVars, stepVars>>

\* decode(&encoded): the bytes encode gave are decoded again
DecodeEncoded ==
    /\ pc = "encoded"
    /\ LET r == decode(encoded) IN redecoded' = [res |-> r.res, map |-> r.map]
    /\ pc' = "redecoded"
    /\ UNCHANGED <<contents, origin, tree, bytes, decoded, encoded, reencoded>>
    /\ UNCHANGED <<extractorVars, identityVars, searchVars, stepVars>>

\* encode(&redecoded) after decode(&encoded).unwrap()
EncodeRedecoded ==
    /\ pc = "redecoded"
    /\ redecoded.res = "Ok"
    /\ reencoded' = encode(redecoded.map)
    /\ pc' = "reencoded"
    /\ UNCHANGED <<contents, origin, tree, bytes, decoded, encoded, redecoded>>
    /\ UNCHANGED <<extractorVars, identityVars, searchVars, stepVars>>

Next ==
    EncodeTree \/ Decode \/ EncodeDecoded \/ DecodeEncoded \/ EncodeRedecoded

Spec == Init /\ [][Next]_vars

----------------------------------------------------------------------------
(* The extractor as a state machine: discover_shortcuts has read the       *)
(* contents of one shortcuts.vdf and parses it.                            *)

InitShortcuts ==
    /\ origin = "file"
    /\ \E n \in 0..MaxRecords : \E recs \in [1..n -> Records] :
         \E case \in KeyCases : \E cut \in 0..MaxCut(recs, case) :
           layout = [case |-> case, recs |-> recs, cut |-> cut]
    /\ contents = Render(layout)
    /\ pc = "read"
    /\ shortcuts = <<>>
    /\ parsed = None
    /\ IdleCodec /\ IdleIdentity /\ IdleSearch /\ IdleSteps

\* the body of the loop of discover_shortcuts for the file read:
\* if let Some(parsed) = parse_shortcuts(&contents) { shortcuts.extend(parsed) }
DiscoverShortcuts ==
    /\ pc = "read"
    /\ LET p == parse_shortcuts(contents) IN
         /\ parsed' = p
         /\ shortcuts' = IF p.some THEN shortcuts \o p.vec ELSE shortcuts
    /\ pc' = "extracted"
    /\ UNCHANGED <<contents, origin, layout>>
    /\ UNCHANGED <<codecVars, identityVars, searchVars, stepVars>>

\* bvdf::decode(&contents): the same file is handed to the decoder, when it
\* ends with the two 0x08 of a file written to its end
DecodeDocument ==
    /\ pc = "extracted"
    /\ Len(contents) >= Len(FileTrailer)
    /\ Drop(contents, Len(contents) - Len(FileTrailer)) = FileTrailer
    /\ LET r == decode(contents) IN
         /\ decoded' = [res |-> r.res, map |-> r.map]
         /\ bytes' = r.rest
    /\ pc' = "document"
    /\ UNCHANGED <<contents, origin, tree, encoded, redecoded, reencoded>>
    /\ UNCHANGED <<extractorVars, identityVars, searchVars, stepVars>>

NextShortcuts == DiscoverShortcuts \/ DecodeDocument

SpecShortcuts == InitShortcuts /\ [][NextShortcuts]_vars

----------------------------------------------------------------------------
(* Shortcut::new and steam_id as a state machine: a shortcut is made from  *)
(* a name and an executable, or comes out of parse_shortcuts, and is asked *)
(* for its long id.                                                        *)

\* the three records tests::sanity lists for tests/sample_data/shortcuts.vdf
FixtureShortcuts ==
    <<Shortcut(U32(42515, 11269), <<65, 110, 107, 105>>,
               <<34, 97, 110, 107, 105, 34>>, <<34, 46, 47, 34>>),
      Shortcut(U32(38027, 37266),
               <<76, 105, 98, 114, 101, 79, 102, 102, 105, 99, 101, 32, 67,
                 97, 108, 99>>,
               <<34, 108, 105, 98, 114, 101, 111, 102, 102, 105, 99, 101, 34>>,
               <<34, 46, 47, 34>>),
      Shortcut(U32(56503, 44893), <<102, 111, 111, 46, 115, 104>>,
               <<34, 47, 117, 115, 114, 47, 108, 111, 99, 97, 108, 47, 98,
                 105, 110, 47, 102, 111, 111, 46, 115, 104, 34>>,
               <<34, 47, 117, 115, 114, 47, 108, 111, 99, 97, 108, 47, 98,
                 105, 110, 47, 34>>)>>

\* names and executables Shortcut::new is called with: "", "A", "Anki",
\* "6789", U+FFFD; "", "/", "a", "/a", "a/b", "/a/b", "\"anki\"", "12345";
\* and the names and executables of the fixture
NewNames ==
    {<<>>, <<65>>, <<65, 110, 107, 105>>, <<54, 55, 56, 57>>, <<65533>>}
NewExecutables ==
    {<<>>, <<47>>, <<97>>, <<47, 97>>, <<97, 47, 98>>, <<47, 97, 47, 98>>,
     <<34, 97, 110, 107, 105, 34>>, <<49, 50, 51, 52, 53>>}
NewArgs ==
    {[app_name |-> n, executable |-> e] : n \in NewNames, e \in NewExecutables}
    \cup {[app_name |-> FixtureShortcuts[i].app_name,
           executable |-> FixtureShortcuts[i].executable] : i \in 1..3}

\* app ids a shortcut read from a file may hold
AppIds ==
    {U32(hi, lo) : hi \in {0, 1, 4660, 32767, 32768, 65535},
                   lo \in {0, 1, 512, 22136, 65535}}

InitIdentity ==
    /\ \/ /\ origin = "new" /\ args \in NewArgs
          /\ shortcut = NoShortcut /\ pc = "args"
       \/ /\ origin = "extracted" /\ args = NoArgs /\ pc = "shortcut"
          /\ \/ \E i \in 1..3 : shortcut = FixtureShortcuts[i]
             \/ \E a \in AppIds : shortcut = Shortcut(a, <<65>>, <<47, 97>>, <<47>>)
    /\ long_id = NoLongId
    /\ contents = <<>>
    /\ IdleCodec /\ IdleExtractor /\ IdleSearch /\ IdleSteps

\* Shortcut::new(app_name, executable)
New ==
    /\ pc = "args"
    /\ shortcut' = new(args.app_name, args.executable)
    /\ pc' = "shortcut"
    /\ UNCHANGED <<contents, origin, args, long_id>>
    /\ UNCHANGED <<codecVars, extractorVars, searchVars, stepVars>>

\* shortcut.steam_id()
SteamId ==
    /\ pc = "shortcut"
    /\ long_id' = steam_id(shortcut)
    /\ pc' = "long_id"
    /\ UNCHANGED <<contents, origin, args, shortcut>>
    /\ UNCHANGED <<codecVars, extractorVars, searchVars, stepVars>>

NextIdentity == New \/ SteamId

SpecIdentity == InitIdentity /\ [][NextIdentity]_vars

----------------------------------------------------------------------------
(* One marker search as a state machine: after_many_case_insensitive is    *)
(* called with the iterator at the start of a buffer.                      *)

\* bytes of the searched buffers: NUL, a tag, a letter in both cases and
\* another letter
HayAlphabet == {0, 1, 65, 97, 66}
Hays == UNION {[1..n -> HayAlphabet] : n \in 0..MaxHay}

\* needles: one byte; a tag and a letter; a tag, a letter and NUL (the shape
\* of the markers of parse_shortcuts); letters only; and two needles whose
\* first byte comes again, as it is and in the other case
SearchNeedles ==
    {<<1>>, <<1, 65>>, <<1, 65, 0>>, <<66, 97>>, <<1, 1, 65>>, <<97, 66, 65>>}

InitSearch ==
    /\ origin = "search"
    /\ contents \in Hays
    /\ marker \in SearchNeedles
    /\ cursor = contents
    /\ hit = FALSE
    /\ pc = "search"
    /\ IdleCodec /\ IdleExtractor /\ IdleIdentity /\ IdleSteps

\* after_many_case_insensitive(&mut it, needle)
Search ==
    /\ pc = "search"
    /\ LET r == after_many_case_insensitive(cursor, marker) IN
         /\ hit' = r.found
         /\ cursor' = r.it
    /\ pc' = "searched"
    /\ UNCHANGED <<contents, origin, marker>>
    /\ UNCHANGED <<codecVars, extractorVars, identityVars, stepVars>>

NextSearch == Search

SpecSearch == InitSearch /\ [][NextSearch]_vars

----------------------------------------------------------------------------
(* decode and parse_shortcuts taken step by step: one step per iteration   *)
(* of the loop of decode_map, per iteration of the scan of                 *)
(* after_many_case_insensitive and per value read.  stack holds the calls  *)
(* of decode_map that have not returned, the innermost last, each with the *)
(* key its map goes under and the map built so far.                        *)

StepBuffers == UNION {[1..n -> Alphabet] : n \in 0..MaxStepLen}

\* records of the files parsed step by step: the two sets of values,
\* without unknown fields and with fields that look like markers
StepRecords ==
    {[id |-> v.id, name |-> v.name, exe |-> v.exe, dir |-> v.dir, gaps |-> g] :
       v \in RecordValues, g \in {GapsNone, GapsLikeMarkers}}

Frame(key, map) == [key |-> key, map |-> map]

InitSteps ==
    /\ \/ /\ origin = "decode_steps"
          /\ contents \in StepBuffers
          /\ bytes = contents
          /\ stack = <<Frame(<<>>, <<>>)>>
          /\ pc = "decode_map"
          /\ layout = NoLayout /\ cursor = <<>> /\ phase = 0
       \/ /\ origin = "parse_steps"
          /\ \E n \in 0..MaxStepRecords : \E recs \in [1..n -> StepRecords] :
               \E cut \in 0..MaxCut(recs, "as_is") :
                 layout = [case |-> "as_is", recs |-> recs, cut |-> cut]
          /\ contents = Render(layout)
          /\ cursor = contents
          /\ phase = 1
          /\ pc = "parse"
          /\ bytes = <<>> /\ stack = <<>>
    /\ tree = <<>> /\ decoded = NoResult /\ encoded = <<>>
    /\ redecoded = NoResult /\ reencoded = <<>>
    /\ parsed = None /\ shortcuts = <<>>
    /\ fields = NoFields
    /\ marker = <<>> /\ hit = FALSE
    /\ IdleIdentity

\* decode_map returns Ok(map) to its caller: decode, or the decode_map that
\* inserts the map under the key read before the call
ReturnMap(rest) ==
    LET d == Len(stack) IN
    /\ bytes' = rest
    /\ IF d = 1
       THEN /\ decoded' = [res |-> "Ok", map |-> stack[1].map]
            /\ stack' = <<>>
            /\ pc' = "returned"
       ELSE /\ stack' = [Take(stack, d - 1) EXCEPT ![d - 1].map =
                           insert(@, stack[d].key, ValMap(stack[d].map))]
            /\ UNCHANGED <<decoded, pc>>

\* an error (or a panic) leaves every decode_map and decode
ReturnErr(res, rest) ==
    /\ bytes' = rest
    /\ decoded' = [res |-> res, map |-> <<>>]
    /\ stack' = <<>>
    /\ pc' = "returned"

\* one iteration of the loop of decode_map, in the innermost call
DecodeMapIteration ==
    /\ pc = "decode_map"
    /\ bytes # <<>>
    /\ LET next == bytes[1]
           b1 == Tail(bytes)
           d == Len(stack)
           key == decode_str(b1)
       IN
       IF next = TYPE_END THEN ReturnMap(b1)
       ELSE IF next \notin {TYPE_MAP, TYPE_STR, TYPE_INT}
       THEN ReturnErr("InvalidMapItemPrefix", b1)
       ELSE IF key.res # "Ok" THEN ReturnErr(key.res, key.rest)
       ELSE IF next = TYPE_MAP
       THEN /\ stack' = Append(stack, Frame(key.str, <<>>))
            /\ bytes' = key.rest
            /\ UNCHANGED <<decoded, pc>>
       ELSE LET value == IF next = TYPE_STR THEN decode_str(key.rest)
                         ELSE decode_int(key.rest)
            IN
            IF value.res # "Ok" THEN ReturnErr(value.res, value.rest)
            ELSE /\ stack' = [stack EXCEPT ![d].map =
                                insert(@, key.str,
                                       IF next = TYPE_STR THEN ValStr(value.str)
                                       ELSE ValInt(value.int))]
                 /\ bytes' = value.rest
                 /\ UNCHANGED <<decoded, pc>>
    /\ UNCHANGED <<contents, origin, tree, encoded, redecoded, reencoded>>
    /\ UNCHANGED <<extractorVars, identityVars, searchVars, phase, fields>>

\* bytes.get(0) is None: the loop of the innermost decode_map ends
DecodeMapExhausted ==
    /\ pc = "decode_map"
    /\ bytes = <<>>
    /\ ReturnMap(bytes)
    /\ UNCHANGED <<contents, origin, tree, encoded, redecoded, reencoded>>
    /\ UNCHANGED <<extractorVars, identityVars, searchVars, phase, fields>>

\* the marker parse_shortcuts looks for in phase 1, 3, 5, 7
PhaseNeedle(ph) ==
    CASE ph = 1 -> NEEDLE_APPID
      [] ph = 3 -> NEEDLE_APPNAME
      [] ph = 5 -> NEEDLE_EXE
      [] ph = 7 -> NEEDLE_STARTDIR

\* one iteration of the scan of the after_many_case_insensitive call that
\* parse_shortcuts is in
ScanIteration ==
    /\ pc = "parse"
    /\ phase \in {1, 3, 5, 7}
    /\ LET r == scan_iteration(cursor, PhaseNeedle(phase)) IN
         /\ cursor' = r.it
         /\ IF ~r.returned THEN UNCHANGED <<phase, parsed, pc>>
            ELSE IF r.found
            THEN phase' = phase + 1 /\ UNCHANGED <<parsed, pc>>
            ELSE /\ parsed' = IF phase = 1 THEN Some(shortcuts) ELSE None
                 /\ pc' = "parsed"
                 /\ UNCHANGED phase
    /\ UNCHANGED <<contents, origin, layout, shortcuts, fields, stack>>
    /\ UNCHANGED <<codecVars, identityVars, marker, hit>>

\* parse_value_u32 or parse_value_str after a marker, and the push of the
\* shortcut after the last value
ParseValue ==
    /\ pc = "parse"
    /\ phase \in {2, 4, 6, 8}
    /\ LET int == parse_value_u32(cursor)
           str == parse_value_str(cursor, <<>>)
           some == IF phase = 2 THEN int.some ELSE str.some
       IN
       /\ cursor' = IF phase = 2 THEN int.it ELSE str.it
       /\ IF ~some
          THEN /\ parsed' = None
               /\ pc' = "parsed"
               /\ UNCHANGED <<phase, fields, shortcuts>>
          ELSE /\ UNCHANGED <<parsed, pc>>
               /\ phase' = IF phase = 8 THEN 1 ELSE phase + 1
               /\ fields' =
                    CASE phase = 2 -> [fields EXCEPT !.appid = int.int]
                      [] phase = 4 -> [fields EXCEPT !.app_name = str.str]
                      [] phase = 6 -> [fields EXCEPT !.executable = str.str]
                      [] phase = 8 -> fields
               /\ shortcuts' =
                    IF phase = 8
                    THEN Append(shortcuts,
                           Shortcut(fields.appid, fields.app_name,
                                    fields.executable, str.str))
                    ELSE shortcuts
    /\ UNCHANGED <<contents, origin, layout, stack>>
    /\ UNCHANGED <<codecVars, identityVars, marker, hit>>

NextSteps ==
    DecodeMapIteration \/ DecodeMapExhausted \/ ScanIteration \/ ParseValue

SpecSteps == InitSteps /\ [][NextSteps]_vars

\* a call that has not returned goes on running
SpecStepsFair == SpecSteps /\ WF_vars(NextSteps)

----------------------------------------------------------------------------
(* The wire format, read off a buffer without building a tree: the          *)
(* reference the claims about decode are stated against.                   *)

Tags == {TYPE_MAP, TYPE_STR, TYPE_INT, TYPE_END}

\* position of the first NUL at or after p, 0 when there is none
FirstNul(b, p) ==
    LET S == {i \in p..Len(b) : b[i] = 0} IN
    IF S = {} THEN 0 ELSE CHOOSE i \in S : \A j \in S : i <= j

\* where the reading of b stops: `at` tells why, pos is the first byte not
\* read, depth the number of nested maps still open, dup whether a key came
\* twice in one map, tags the positions read as tag bytes
Shape(at, p, open, dup, tags) ==
    [at |-> at, pos |-> p, depth |-> Len(open) - 1, dup |-> dup, tags |-> tags]

RECURSIVE WireFrom(_, _, _, _, _)
WireFrom(b, p, open, dup, tags) ==
    IF p > Len(b) THEN Shape("eof_at_entry", p, open, dup, tags)
    ELSE
      LET tag == b[p]
          d == Len(open)
          tags1 == tags \cup {p}
      IN
      IF tag = TYPE_END
      THEN IF d = 1 THEN Shape("end", p + 1, open, dup, tags1)
           ELSE WireFrom(b, p + 1, Take(open, d - 1), dup, tags1)
      ELSE IF tag \notin Tags THEN Shape("bad_tag", p, open, dup, tags)
      ELSE
        LET kz == FirstNul(b, p + 1) IN
        IF kz = 0 THEN Shape("eof_in_key", p + 1, open, dup, tags1)
        ELSE
          LET key == SubSeq(b, p + 1, kz - 1)
              dup1 == dup \/ key \in open[d]
              open1 == [open EXCEPT ![d] = @ \cup {key}]
          IN
          CASE tag = TYPE_MAP ->
                 WireFrom(b, kz + 1, Append(open1, {}), dup1, tags1)
            [] tag = TYPE_STR ->
                 LET vz == FirstNul(b, kz + 1) IN
                 IF vz = 0 THEN Shape("eof_in_text", kz + 1, open1, dup1, tags1)
                 ELSE WireFrom(b, vz + 1, open1, dup1, tags1)
            [] tag = TYPE_INT ->
                 IF Len(b) - kz < 4
                 THEN Shape("eof_in_int", kz + 1, open1, dup1, tags1)
                 ELSE WireFrom(b, kz + 5, open1, dup1, tags1)

Wire(b) == WireFrom(b, 1, <<{}>>, FALSE, {})

\* a canonical encoding: complete entries, every map and the root closed by
\* 0x08, nothing after the root's 0x08, no key twice in a map
Canonical(b) ==
    LET w == Wire(b) IN w.at = "end" /\ w.pos = Len(b) + 1 /\ ~w.dup

\* b with the tag byte at p replaced by a byte that is no tag, b[p]
MutatedAt(b, p) ==
    /\ b[p] \notin Tags
    /\ \E t \in Tags :
         LET c == [b EXCEPT ![p] = t] IN Canonical(c) /\ p \in Wire(c).tags

Done == pc \in {"decoded", "encoded"}

----------------------------------------------------------------------------
(* Claims *)

\* C1: for every canonical buffer b, decode(b) succeeds and
\* encode(decode(b)) is b byte for byte.
C1_RoundTrip ==
    Canonical(contents) =>
      /\ Done => decoded.res = "Ok"
      /\ pc = "encoded" => encoded = contents

\* a canonical buffer with a non-empty nested map has been decoded and
\* encoded again
C1_Witness ==
    /\ pc = "encoded" /\ origin = "bytes" /\ Canonical(contents)
    /\ \E i \in 1..Len(decoded.map) :
         decoded.map[i].val.type = "Map" /\ Len(decoded.map[i].val.map) > 0

\* C2: when the value of a 0x02 entry is reached with fewer than 4 bytes
\* left, decode returns Err(UnexpectedEndOfInput) and does not panic.
C2_IntTruncation ==
    (Done /\ Wire(contents).at = "eof_in_int") =>
      decoded.res = "UnexpectedEndOfInput"

\* C3: when the buffer ends inside a nested map, before that map's 0x08,
\* decode returns Err(UnexpectedEndOfInput).
C3_NestedTruncation ==
    (Done /\ Wire(contents).at = "eof_at_entry" /\ Wire(contents).depth >= 1) =>
      decoded.res = "UnexpectedEndOfInput"

\* C5: a canonical buffer whose tag byte at position p is replaced by a byte
\* that is no tag makes decode fail with InvalidMapItemPrefix, and decode
\* fails on that byte: it has read exactly the p first bytes.
C5_UnknownTag ==
    Done =>
      \A p \in 1..Len(contents) :
        MutatedAt(contents, p) =>
          /\ decoded.res = "InvalidMapItemPrefix"
          /\ Len(contents) - Len(bytes) = p

\* the replaced tag byte is inside a nested map, after other entries
C5_Witness ==
    /\ Done
    /\ \E p \in 3..Len(contents) :
         MutatedAt(contents, p) /\ Wire(contents).depth >= 1

\* C6: when a key or a text value is read and the buffer ends before a
\* 0x00 (an empty remainder included), decode returns
\* Err(UnexpectedEndOfInput) and does not panic.
C6_MissingNul ==
    (Done /\ Wire(contents).at \in {"eof_in_key", "eof_in_text"}) =>
      decoded.res = "UnexpectedEndOfInput"

\* a text value was to be read in a nested map with nothing left
C6_Witness ==
    /\ Done
    /\ Wire(contents).at = "eof_in_text"
    /\ Wire(contents).pos = Len(contents) + 1
    /\ Wire(contents).depth >= 1

\* C7: a sequence s of complete top-level entries without the trailing 0x08
\* decodes, to the tree s ++ [0x08] decodes to; the empty buffer decodes to
\* the empty map.
C7_TopLevelTolerance ==
    (Done /\ Wire(contents).at = "eof_at_entry" /\ Wire(contents).depth = 0) =>
      /\ decoded.res = "Ok"
      /\ decode(contents \o <<TYPE_END>>).res = "Ok"
      /\ decoded.map = decode(contents \o <<TYPE_END>>).map
      /\ contents = <<>> => decoded.map = <<>>

\* two complete top-level entries and no 0x08 have been decoded
C7_Witness ==
    /\ Done
    /\ Wire(contents).at = "eof_at_entry" /\ Wire(contents).depth = 0
    /\ Len(decoded.map) = 2

\* C10: for every tree t with unique NUL-free keys, NUL-free texts and
\* 32-bit integers, decode(encode(t)) succeeds and is t, entries in the
\* same order at every level.
C10_TreeRoundTrip ==
    (origin = "tree" /\ Done) => decoded = [res |-> "Ok", map |-> tree]

\* a tree with two entries, one of them a non-empty nested map, went
\* through encode and decode
C10_Witness ==
    /\ origin = "tree" /\ Done
    /\ Len(tree) = 2
    /\ \E i \in 1..2 : tree[i].val.type = "Map" /\ Len(tree[i].val.map) > 0

----------------------------------------------------------------------------
(* Claims about the extractor, stated against the layout of the file *)

Needles == <<NEEDLE_APPID, NEEDLE_APPNAME, NEEDLE_EXE, NEEDLE_STARTDIR>>

\* the String a text value stands for
TextOf(value) ==
    [i \in 1..Len(value) |-> IF value[i] < 128 THEN value[i] ELSE 65533]

\* the record the extractor is to return for a record of the layout
Expected(rec) ==
    [appid |-> rec.id, app_name |-> TextOf(rec.name),
     executable |-> TextOf(rec.exe), start_dir |-> TextOf(rec.dir)]

\* needle occurs in s, ASCII letters compared without their case
Fold(b) == IF b >= 65 /\ b <= 90 THEN b + 32 ELSE b
Occurs(needle, s) ==
    \E p \in 1..(Len(s) - Len(needle) + 1) :
      \A j \in 1..Len(needle) : Fold(s[p + j - 1]) = Fold(needle[j])

\* the bytes between the value read last and the k-th marker of record i
Between(recs, i, k) ==
    (CASE k > 1 -> <<>>
       [] k = 1 /\ i = 1 -> FileHeader
       [] OTHER -> <<8>>)
    \o (IF k = 1 THEN RecordOpen(i) ELSE <<>>) \o recs[i].gaps[k]

\* no unknown field holds an occurrence of the marker looked for across it
Clean(recs) ==
    \A i \in 1..Len(recs) : \A k \in 1..4 :
      ~Occurs(Needles[k], Between(recs, i, k))

\* position in the file of the last byte of record i's appid marker, and of
\* the NUL that ends its StartDir value
AppidEnd(lay, i) ==
    Len(FileHeader) + Len(RecordsBytes(lay.recs, i - 1, lay.case))
    + Len(RecordOpen(i)) + Len(lay.recs[i].gaps[1]) + Len(NEEDLE_APPID)
RecordEnd(lay, i) ==
    Len(FileHeader) + Len(RecordsBytes(lay.recs, i, lay.case)) - 1

\* C4: when, after an appid marker, the 4 id bytes, one of the three other
\* markers or the NUL of one of their values is missing, the result is
\* exactly the records completed before, none of them lost.
C4_BestEffort ==
    (/\ pc = "extracted"
     /\ Clean(layout.recs)
     /\ \E i \in 1..Len(layout.recs) :
          AppidEnd(layout, i) <= Len(contents) /\ Len(contents) < RecordEnd(layout, i))
    => shortcuts =
         [i \in 1..(Len(layout.recs) - 1) |-> Expected(layout.recs[i])]

C9_CaseInsensitiveAnyFields ==
    pc = "extracted" =>
      parsed = parse_shortcuts(
                 Take(FileBytes(layout.recs, "as_is"), Len(contents)))

\* C9 amended: the same, provided no unknown field holds an occurrence
\* (letters compared without case) of the marker the extractor is looking
\* for when it passes over that field, so that key names are read as
\* markers only.
C9_CaseInsensitiveKeys ==
    (pc = "extracted" /\ Clean(layout.recs)) =>
      parsed = parse_shortcuts(
                 Take(FileBytes(layout.recs, "as_is"), Len(contents)))

\* a file with the key names in the other case and unknown fields has
\* given two records
C9_Witness ==
    /\ pc = "extracted"
    /\ layout.case = "swapped"
    /\ Len(layout.recs) = 2
    /\ Clean(layout.recs)
    /\ layout.recs[1].gaps = GapsFields
    /\ Len(parsed.vec) = 2

----------------------------------------------------------------------------
(* Claims about the codec, continued *)

\* C11: for every buffer b that decode accepts (keys may repeat, the root's
\* 0x08 may be missing, bytes may follow it), decoding and encoding the
\* bytes encode(decode(b)) gives these bytes again.
C11_IdempotentReencode ==
    /\ pc \in {"redecoded", "reencoded"} => redecoded.res = "Ok"
    /\ pc = "reencoded" => reencoded = encoded

\* a buffer with a key twice, an integer, no 0x08 at its end went through
\* decode, encode, decode and encode
C11_Witness ==
    /\ pc = "reencoded" /\ origin = "entries"
    /\ Wire(contents).dup /\ Wire(contents).at = "eof_at_entry"
    /\ \E i \in 1..Len(redecoded.map) : redecoded.map[i].val.type = "Int"

\* the entries of the map that starts at p, every one of them kept, in the
\* order of the buffer; open holds, for each map being read, the key it is
\* to be stored under and the entries read so far
RawEntry(key, val) == [key |-> key, val |-> val]
RECURSIVE RawClose(_)
RawClose(open) ==
    LET d == Len(open) IN
    IF d = 1 THEN open[1].entries
    ELSE RawClose([Take(open, d - 1) EXCEPT ![d - 1].entries =
                     Append(@, RawEntry(open[d].key, ValMap(open[d].entries)))])

RECURSIVE RawFrom(_, _, _)
RawFrom(b, p, open) ==
    LET d == Len(open) IN
    IF p > Len(b) THEN RawClose(open)
    ELSE IF b[p] = TYPE_END
    THEN IF d = 1 THEN open[1].entries
         ELSE RawFrom(b, p + 1,
                [Take(open, d - 1) EXCEPT ![d - 1].entries =
                   Append(@, RawEntry(open[d].key, ValMap(open[d].entries)))])
    ELSE
      LET kz == FirstNul(b, p + 1)
          key == SubSeq(b, p + 1, kz - 1)
      IN
      CASE b[p] = TYPE_MAP ->
             RawFrom(b, kz + 1, Append(open, [key |-> key, entries |-> <<>>]))
        [] b[p] = TYPE_STR ->
             LET vz == FirstNul(b, kz + 1) IN
             RawFrom(b, vz + 1,
               [open EXCEPT ![d].entries =
                  Append(@, RawEntry(key, ValStr(SubSeq(b, kz + 1, vz - 1))))])
        [] b[p] = TYPE_INT ->
             RawFrom(b, kz + 5,
               [open EXCEPT ![d].entries =
                  Append(@, RawEntry(key,
                    ValInt(U32(b[kz + 3] + 256 * b[kz + 4],
                               b[kz + 1] + 256 * b[kz + 2]))))])

\* defined for the buffers decode accepts
Raw(b) == RawFrom(b, 1, <<[key |-> <<>>, entries |-> <<>>]>>)

\* the entries a map holds for the raw entries read for it: one per key, at
\* the place of the key's first entry, with the value of its last entry
RECURSIVE Merged(_)
Merged(raw) ==
    LET First == {i \in 1..Len(raw) : \A j \in 1..(i - 1) : raw[j].key # raw[i].key}
        Last(key) ==
          CHOOSE i \in 1..Len(raw) :
            raw[i].key = key /\ \A j \in (i + 1)..Len(raw) : raw[j].key # key
        Value(v) == IF v.type = "Map" THEN ValMap(Merged(v.map)) ELSE v
    IN
    [k \in 1..Cardinality(First) |->
       LET i == CHOOSE i \in First : Cardinality({j \in First : j <= i}) = k
       IN RawEntry(raw[i].key, Value(raw[Last(raw[i].key)].val))]

RECURSIVE DistinctKeys(_)
DistinctKeys(map) ==
    /\ \A i, j \in 1..Len(map) : map[i].key = map[j].key => i = j
    /\ \A i \in 1..Len(map) :
         map[i].val.type = "Map" => DistinctKeys(map[i].val.map)

\* C12: in every tree decode returns the keys of each map are pairwise
\* distinct; a key that comes several times in one map is held once, at the
\* place of its first entry and with the value of its last entry, the other
\* keys keeping the order in which they first came.
C12_KeyUniqueness ==
    (Done /\ decoded.res = "Ok") =>
      /\ DistinctKeys(decoded.map)
      /\ decoded.map = Merged(Raw(contents))

\* a key came again after another key, with another value, at the top
\* level and in a nested map
C12_Witness ==
    /\ Done /\ decoded.res = "Ok"
    /\ \E i \in 1..Len(decoded.map) :
         /\ decoded.map[i].val.type = "Map"
         /\ Len(Raw(contents)) >= 3
         /\ Len(Raw(contents)) > Len(decoded.map)
         /\ decoded.map[1].key = Raw(contents)[3].key
         /\ decoded.map[1].val # Raw(contents)[1].val
         /\ Len(decoded.map[i].val.map) = 1
         /\ \E j \in 1..Len(Raw(contents)) :
              /\ Raw(contents)[j].val.type = "Map"
              /\ Len(Raw(contents)[j].val.map) = 2

RECURSIVE NulFree(_)
NulFree(map) ==
    \A i \in 1..Len(map) :
      /\ 0 \notin Range(map[i].key)
      /\ map[i].val.type = "Str" => 0 \notin Range(map[i].val.str)
      /\ map[i].val.type = "Map" => NulFree(map[i].val.map)

\* C16: no key and no text of a tree decode returns holds a 0x00, and the
\* CString construction of decode_str never fails: decode panics nowhere
\* but where the buffer ends inside the 4 bytes of an integer.
C16_NulFree ==
    /\ Done =>
         /\ decoded.res = "Ok" => NulFree(decoded.map)
         /\ decoded.res = "Panic" => Wire(contents).at = "eof_in_int"
    /\ redecoded.res # "Panic"

\* a buffer with a non-empty text in a nested map has been decoded
C16_Witness ==
    /\ Done /\ decoded.res = "Ok" /\ origin = "bytes"
    /\ \E i \in 1..Len(decoded.map) :
         /\ decoded.map[i].val.type = "Map"
         /\ \E j \in 1..Len(decoded.map[i].val.map) :
              /\ decoded.map[i].val.map[j].val.type = "Str"
              /\ decoded.map[i].val.map[j].val.str # <<>>

\* C20: decode stops at the root's 0x08: for a canonical buffer b and any
\* bytes x, decode(b ++ x) succeeds with the tree decode(b) gives and has
\* read b only, so encode(decode(b ++ x)) is b.
C20_TrailingIgnored ==
    (Done /\ Wire(contents).at = "end" /\ ~Wire(contents).dup) =>
      LET b == Take(contents, Wire(contents).pos - 1) IN
      /\ Canonical(b)
      /\ decoded = [res |-> "Ok", map |-> decode(b).map]
      /\ decode(b).res = "Ok"
      /\ bytes = Drop(contents, Len(b))
      /\ pc = "encoded" => encoded = b

\* bytes that are no entry follow the 0x08 of a root that holds an entry
C20_Witness ==
    /\ pc = "encoded"
    /\ Wire(contents).at = "end" /\ ~Wire(contents).dup
    /\ Wire(contents).pos <= Len(contents) - 1
    /\ 65 \in Range(Drop(contents, Wire(contents).pos - 1))
    /\ Len(decoded.map) >= 1

----------------------------------------------------------------------------
(* Claims about Shortcut::new and steam_id *)

\* C13: for every 32-bit app id a, the long id is (a << 32) | 0x02000000
\* computed in 64 bits without overflow: its upper 32 bits are a, its lower
\* 32 bits are 0x02000000; 0x12345678 gives 0x1234567802000000.
C13_LongId ==
    pc = "long_id" =>
      /\ long_id.hi = shortcut.appid
      /\ long_id.lo = U32(512, 0)
      /\ shortcut.appid = U32(4660, 22136) =>
           long_id = U64(U32(4660, 22136), U32(512, 0))

\* the long id of app id 0x12345678 has been computed
C13_Witness ==
    /\ pc = "long_id" /\ shortcut.appid = U32(4660, 22136)
    /\ long_id.hi.hi = 4660

\* C14: steam_id() of the three shortcuts extracted from the sample file
\* (app ids 2786274309, 2492174738, 3703025501) is 0xe89614fe02000000,
\* 0xdb01c79902000000 and 0x9d55017302000000.
C14_FixtureLongIds ==
    (pc = "long_id" /\ origin = "extracted") =>
      /\ shortcut = FixtureShortcuts[1] =>
           long_id = U64(U32(59542, 5374), U32(512, 0))
      /\ shortcut = FixtureShortcuts[2] =>
           long_id = U64(U32(56065, 51097), U32(512, 0))
      /\ shortcut = FixtureShortcuts[3] =>
           long_id = U64(U32(40277, 371), U32(512, 0))

\* CRC-32/ISO-HDLC as the catalogue of CRCs defines it: width 32,
\* polynomial 0x04c11db7, init 0xffffffff, input and output reflected,
\* xorout 0xffffffff; computed most significant bit first
RECURSIVE Reflect(_, _)
\* the w low bits of n in the opposite order
Reflect(n, w) ==
    IF w = 0 THEN 0 ELSE (n % 2) * 2 ^ (w - 1) + Reflect(n \div 2, w - 1)

RECURSIVE RefCrcBits(_, _)
RefCrcBits(reg, n) ==
    IF n = 0 THEN reg
    ELSE LET shifted == U32((reg.hi * 2 + reg.lo \div 32768) % 65536,
                            (reg.lo * 2) % 65536)
             next == IF reg.hi >= 32768
                     THEN U32(BitXor(shifted.hi, 1217), BitXor(shifted.lo, 7607))
                     ELSE shifted
         IN CASE next.hi < 65536 /\ next.lo < 65536 -> RefCrcBits(next, n - 1)

RECURSIVE RefCrcBytes(_, _)
RefCrcBytes(reg, bs) ==
    IF bs = <<>> THEN reg
    ELSE LET next ==
               RefCrcBits(U32(BitXor(reg.hi, Reflect(bs[1], 8) * 256), reg.lo), 8)
         IN CASE next.hi < 65536 /\ next.lo < 65536 -> RefCrcBytes(next, Tail(bs))

RefCrc(bs) ==
    LET reg == RefCrcBytes(U32(65535, 65535), bs) IN
    U32(BitXor(Reflect(reg.lo, 16), 65535), BitXor(Reflect(reg.hi, 16), 65535))

\* C15: Shortcut::new sets appid to the CRC-32/ISO-HDLC of the bytes of the
\* executable followed by the bytes of the name, with bit 31 set: the high
\* bit is always 1 and the id depends on the two strings only.  "12345"
\* and "6789" give the check value 0xcbf43926 of the algorithm; "a" and "A"
\* give 0x3ce4391f, hence 0xbce4391f.
C15_Identity ==
    (origin = "new" /\ pc \in {"shortcut", "long_id"}) =>
      LET crc == RefCrc(as_bytes(args.executable) \o as_bytes(args.app_name)) IN
      /\ shortcut.appid = U32(BitOr(crc.hi, 32768), crc.lo)
      /\ shortcut.appid.hi >= 32768
      /\ shortcut.app_name = args.app_name
      /\ shortcut.executable = args.executable
      /\ (args.executable = <<49, 50, 51, 52, 53>>
          /\ args.app_name = <<54, 55, 56, 57>>) =>
           shortcut.appid = U32(52212, 14630)
      /\ (args.executable = <<97>> /\ args.app_name = <<65>>) =>
           shortcut.appid = U32(48356, 14623)

\* the shortcut for "Anki" run by "\"anki\"" has been made and has the id
\* 0xe89614fe; and one whose checksum has bit 31 clear
C15_Witness ==
    /\ origin = "new" /\ pc = "shortcut"
    /\ args.app_name = <<65, 110, 107, 105>>
    /\ args.executable = <<34, 97, 110, 107, 105, 34>>
    /\ shortcut.appid = U32(59542, 5374)
    /\ RefCrc(<<97, 65>>).hi < 32768

----------------------------------------------------------------------------
(* Claims about the marker search *)

\* the first byte of the needle does not come again in it, letters compared
\* without their case
FirstByteOnce(n) ==
    n # <<>> /\ \A j \in 2..Len(n) : Fold(n[j]) # Fold(n[1])

\* the places where needle occurs in s, letters compared without their case
Occurrences(n, s) ==
    {p \in 1..(Len(s) - Len(n) + 1) :
       \A j \in 1..Len(n) : Fold(s[p + j - 1]) = Fold(n[j])}

Least(S) == CHOOSE p \in S : \A q \in S : p <= q

\* C17: for a needle whose first byte does not come again among its other
\* bytes (letters compared without case), after_many_case_insensitive
\* returns true exactly when the unread buffer holds an occurrence of the
\* needle, and then leaves the iterator right after the first occurrence;
\* it returns false only with the iterator at the end of the buffer.
C17_MarkerSearch ==
    (pc = "searched" /\ FirstByteOnce(marker)) =>
      LET occ == Occurrences(marker, contents) IN
      /\ hit <=> occ # {}
      /\ hit => cursor = Drop(contents, Least(occ) + Len(marker) - 1)
      /\ ~hit => cursor = <<>>

\* the needle was found after a partial match that failed on a byte which
\* starts the occurrence, in the other letter case
C17_Witness ==
    /\ pc = "searched" /\ hit
    /\ marker = <<66, 97>>
    /\ Len(contents) >= 4
    /\ Fold(contents[1]) = 98 /\ Fold(contents[2]) = 98
    /\ contents[3] = 65
    /\ cursor # <<>>

----------------------------------------------------------------------------
(* Claims about the extractor and the decoder on one file *)

\* the name a marker stands for, written as the file writes it
KeyOf(needle, case) == Recase(SubSeq(needle, 2, Len(needle) - 1), case)

\* the value stored under key in map
Lookup(map, key) == map[CHOOSE i \in 1..Len(map) : map[i].key = key].val

\* the records read from the decoded tree: for each map of the root's
\* "shortcuts" map, the values under the four keys, texts as Strings
FromTree(root, case) ==
    LET list == Lookup(root, SubSeq(FileHeader, 2, Len(FileHeader) - 1)).map IN
    [i \in 1..Len(list) |->
       LET m == list[i].val.map IN
       Shortcut(Lookup(m, KeyOf(NEEDLE_APPID, case)).int,
                TextOf(Lookup(m, KeyOf(NEEDLE_APPNAME, case)).str),
                TextOf(Lookup(m, KeyOf(NEEDLE_EXE, case)).str),
                TextOf(Lookup(m, KeyOf(NEEDLE_STARTDIR, case)).str))]

----------------------------------------------------------------------------
(* Claims about termination and progress *)

Returned == pc \in {"returned", "parsed"}

\* the cursor points into the buffer: what is left to read is a suffix
Suffix(rest) ==
    Len(rest) <= Len(contents) /\ rest = Drop(contents, Len(contents) - Len(rest))

\* a step of the model leaves no cursor further back, an iteration of the
\* loop of decode_map consumes a byte, and a step of parse_shortcuts after
\* which it has not returned consumes a byte
Progress ==
    /\ Len(bytes') <= Len(bytes)
    /\ Len(cursor') <= Len(cursor)
    /\ (pc = "decode_map" /\ bytes # <<>>) => Len(bytes') < Len(bytes)
    /\ (pc = "parse" /\ pc' = "parse") => Len(cursor') < Len(cursor)

\* C19: on every finite buffer decode and the extractor terminate; the
\* cursor never moves backwards and never passes the end of the buffer;
\* every iteration of the loop of decode_map consumes at least one byte, and
\* so does every iteration of the scan of after_many_case_insensitive that
\* does not return.  What they return is what decode and parse_shortcuts
\* return.
C19_TerminationProgress ==
    /\ [](Suffix(bytes) /\ Suffix(cursor))
    /\ [][Progress]_vars
    /\ [](pc = "returned" =>
            /\ decoded.res = decode(contents).res
            /\ decoded.map = decode(contents).map
            /\ bytes = decode(contents).rest)
    /\ [](pc = "parsed" => parsed = parse_shortcuts(contents))
    /\ <>Returned

\* parse_shortcuts has returned a record after scanning, iteration by
\* iteration, over a field that looks like a marker
C19_Witness ==
    /\ origin = "parse_steps" /\ pc = "parsed"
    /\ parsed.some /\ Len(parsed.vec) = 1
    /\ layout.recs[1].gaps = GapsLikeMarkers
    /\ cursor = <<>>

====
